---------------------------- MODULE Spec2Model ----------------------------
(***************************************************************************)
(* A model of src/request.rs of irmars: the attribute type identifier      *)
(* parser (Attribute::new), the orderings and equalities of AttributeType, *)
(* Attribute and AttributeRequest, and the JSON encoding of a              *)
(* DisclosureRequest (serde's derived encoders and decoders, and the       *)
(* hand-written Serialize of DisclosureRequest).                           *)
(*                                                                         *)
(* A Rust String is the sequence of its UTF-8 bytes.  Option<T> is a       *)
(* sequence of length at most one: None is <<>>, Some(x) is <<x>>.         *)
(***************************************************************************)
EXTENDS Integers, Sequences, FiniteSets, TLC

VARIABLES
    atype,      \* Attribute::new: the identifier handed in
    value,      \* Attribute::new: the optional value handed in
    result,     \* Attribute::new: the Result it returned (Pending before the call)
    a, b, c,    \* three Attributes built by Attribute::new
    r1, r2,     \* two AttributeRequests
    op,         \* the operation called last ("none" before any call)
    out,        \* what a comparison returned
    request,    \* the DisclosureRequest under construction
    pc,         \* "build", then "serialized", then "decoded"
    ser,        \* what serializing request gave
    input,      \* the JSON handed to a deserializer
    decoded     \* the Result the deserializer returned

newVars == <<atype, value, result>>
cmpVars == <<a, b, c, r1, r2, op, out>>
wireVars == <<request, pc, ser, input, decoded>>
vars == <<newVars, cmpVars, wireVars>>

\* The value of a variable that a specification does not use.
Unused == <<>>

(***************************************************************************)
(* Bounds                                                                  *)
(***************************************************************************)
\* Longest identifier handed to Attribute::new.
MaxLen == 7
\* Longest enumerated identifier of the Attributes that are compared.
MaxCmpLen == 4
\* Most nodes (disjunctions, conjunctions and requests together) of a
\* disclose tree.
MaxNodes == 5
\* Most insertions into the labels of a DisclosureRequest.
MaxLabels == 3

(***************************************************************************)
(* Strings                                                                 *)
(***************************************************************************)
\* The byte of the '.' that Attribute::new splits on.
Dot == 46

\* The UTF-8 byte of each character the model writes in a literal.
Utf8Byte(ch) ==
    CASE ch = "-" -> 45 [] ch = "." -> 46 [] ch = "/" -> 47
      [] ch = "1" -> 49 [] ch = "2" -> 50 [] ch = "3" -> 51
      [] ch = "4" -> 52 [] ch = "5" -> 53 [] ch = ":" -> 58
      [] ch = "@" -> 64 [] ch = "_" -> 95
      [] ch = "a" -> 97 [] ch = "b" -> 98 [] ch = "c" -> 99
      [] ch = "d" -> 100 [] ch = "e" -> 101 [] ch = "f" -> 102
      [] ch = "g" -> 103 [] ch = "h" -> 104 [] ch = "i" -> 105
      [] ch = "l" -> 108 [] ch = "m" -> 109 [] ch = "n" -> 110
      [] ch = "o" -> 111 [] ch = "p" -> 112 [] ch = "q" -> 113
      [] ch = "r" -> 114 [] ch = "s" -> 115 [] ch = "t" -> 116
      [] ch = "u" -> 117 [] ch = "v" -> 118 [] ch = "x" -> 120
      [] ch = "y" -> 121

\* A string literal, written as the tuple of its characters.
Str(chars) == [i \in 1..Len(chars) |-> Utf8Byte(chars[i])]

\* The bytes the enumerated identifiers are made of: '.', 'a' and 'b'.
IdentBytes == {Dot, 97, 98}

\* Every string of exactly n bytes of the set bytes.
StringsOfLen(bytes, n) == [1..n -> bytes]

\* Every string of at most n bytes of the set bytes.
StringsUpTo(bytes, n) == UNION {StringsOfLen(bytes, k) : k \in 0..n}

(***************************************************************************)
(* Option and Result                                                       *)
(***************************************************************************)
None == <<>>
Some(x) == <<x>>
IsSome(o) == Len(o) = 1
Unwrap(o) == o[1]

\* The optional values handed to Attribute::new.
Values == {None, Some(<<>>), Some(<<97>>)}

Pending == [tag |-> "Pending", v |-> <<>>]
Ok(x) == [tag |-> "Ok", v |-> <<x>>]
Err(e) == [tag |-> "Err", v |-> <<e>>]
IsOk(r) == r.tag = "Ok"

\* The variables of Attribute::new, of the comparisons and of the encoding
\* in a specification that does not use them.
NewUnused == atype = Unused /\ value = Unused /\ result = Pending
CmpUnused ==
    /\ a = Unused /\ b = Unused /\ c = Unused
    /\ r1 = Unused /\ r2 = Unused
    /\ op = "none" /\ out = Unused
WireUnused ==
    /\ request = Unused /\ pc = "unused"
    /\ ser = Unused /\ input = Unused /\ decoded = Unused

(***************************************************************************)
(* Attribute::new                                                          *)
(***************************************************************************)
\* str::split('.'): the segments between the dots, n dots giving n + 1
\* segments, the empty string giving one empty segment.
RECURSIVE Split(_)
Split(s) ==
    IF \A i \in 1..Len(s) : s[i] # Dot
    THEN <<s>>
    ELSE LET i == CHOOSE k \in 1..Len(s) :
                      s[k] = Dot /\ \A j \in 1..(k - 1) : s[j] # Dot
         IN  <<SubSeq(s, 1, i - 1)>> \o Split(SubSeq(s, i + 1, Len(s)))

\* A collect_tuple that takes the first four items and drops the rest.
collect_tuple_first_four(items) ==
    IF Len(items) >= 4 THEN Some(SubSeq(items, 1, 4)) ELSE None

\* Itertools::collect_tuple into a 4-tuple: Some only for exactly four items.
collect_tuple(items) == IF Len(items) = 4 THEN Some(items) ELSE None

\* struct AttributeType
AttributeType(scheme, issuer, credential, attribute) ==
    [scheme |-> scheme, issuer |-> issuer,
     credential |-> credential, attribute |-> attribute]

\* struct Attribute
Attribute(at, val) == [atype |-> at, value |-> val]

\* An Attribute::new that also rejects an empty segment.
Attribute_new_rejects_empty(s, val) ==
    LET t == collect_tuple(Split(s))
    IN  IF IsSome(t) /\ \A i \in 1..4 : Unwrap(t)[i] # <<>>
        THEN Ok(Attribute(AttributeType(Unwrap(t)[1], Unwrap(t)[2],
                                        Unwrap(t)[3], Unwrap(t)[4]), val))
        ELSE Err("NotAnAttributeTypeIdentifier")

\* Attribute::new
Attribute_new(s, val) ==
    LET t == collect_tuple(Split(s))
    IN  IF IsSome(t)
        THEN Ok(Attribute(AttributeType(Unwrap(t)[1], Unwrap(t)[2],
                                        Unwrap(t)[3], Unwrap(t)[4]), val))
        ELSE Err("NotAnAttributeTypeIdentifier")

\* The number of '.' bytes of s.
DotCount(s) == Cardinality({i \in 1..Len(s) : s[i] = Dot})

\* No byte of s is a '.'.
NoDot(s) == \A i \in 1..Len(s) : s[i] # Dot

\* The four components of an AttributeType joined with '.'.
Dotted(t) ==
    t.scheme \o <<Dot>> \o t.issuer \o <<Dot>> \o t.credential
             \o <<Dot>> \o t.attribute

(***************************************************************************)
(* Orderings and equalities                                                *)
(***************************************************************************)
\* Ord::cmp of two integers (u8, usize).
Int_cmp(x, y) == IF x < y THEN "Less" ELSE IF x = y THEN "Equal" ELSE "Greater"

\* Ord::cmp of two bools: false is less than true.
bool_cmp(x, y) == IF x = y THEN "Equal" ELSE IF y THEN "Less" ELSE "Greater"

\* Ordering::then: the first ordering unless it is Equal.
then(o1, o2) == IF o1 = "Equal" THEN o2 ELSE o1

\* Ord::cmp of two Strings: the byte slices compared, that is the first
\* differing byte of the common prefix, and the lengths when there is none.
String_cmp(s, t) ==
    LET l    == IF Len(s) < Len(t) THEN Len(s) ELSE Len(t)
        diff == {i \in 1..l : s[i] # t[i]}
    IN  IF diff = {}
        THEN Int_cmp(Len(s), Len(t))
        ELSE LET i == CHOOSE k \in diff : \A j \in diff : k <= j
             IN  Int_cmp(s[i], t[i])

\* Ord::cmp of two Option<String>: None is less than every Some.
Option_cmp(x, y) ==
    IF IsSome(x)
    THEN IF IsSome(y) THEN String_cmp(Unwrap(x), Unwrap(y)) ELSE "Greater"
    ELSE IF IsSome(y) THEN "Less" ELSE "Equal"

\* An AttributeType ordering that compares credential before issuer.
AttributeType_cmp_swapped(x, y) ==
    then(String_cmp(x.scheme, y.scheme),
    then(String_cmp(x.credential, y.credential),
    then(String_cmp(x.issuer, y.issuer),
         String_cmp(x.attribute, y.attribute))))

\* #[derive(Ord)] of AttributeType: the fields compared in declaration order.
AttributeType_cmp(x, y) ==
    then(String_cmp(x.scheme, y.scheme),
    then(String_cmp(x.issuer, y.issuer),
    then(String_cmp(x.credential, y.credential),
         String_cmp(x.attribute, y.attribute))))

\* #[derive(PartialOrd)] of AttributeType.
AttributeType_partial_cmp(x, y) == Some(AttributeType_cmp(x, y))

\* #[derive(PartialEq)] of AttributeType.
AttributeType_eq(x, y) ==
    /\ x.scheme = y.scheme
    /\ x.issuer = y.issuer
    /\ x.credential = y.credential
    /\ x.attribute = y.attribute

\* impl Ord for Attribute
Attribute_cmp(x, y) == AttributeType_cmp(x.atype, y.atype)

\* #[derive(PartialOrd)] of Attribute: atype, then value.
Attribute_partial_cmp(x, y) ==
    LET o == AttributeType_partial_cmp(x.atype, y.atype)
    IN  IF o = Some("Equal") THEN Some(Option_cmp(x.value, y.value)) ELSE o

\* An Attribute equality that looks at the type alone.
Attribute_eq_type_only(x, y) == AttributeType_eq(x.atype, y.atype)

\* #[derive(PartialEq)] of Attribute: atype and value.
Attribute_eq(x, y) == AttributeType_eq(x.atype, y.atype) /\ x.value = y.value

\* struct AttributeRequest
AttributeRequest(attr, nn) == [attribute |-> attr, not_null |-> nn]

\* An AttributeRequest ordering that stops at the attribute.
AttributeRequest_cmp_attribute_only(x, y) ==
    Attribute_cmp(x.attribute, y.attribute)

\* #[derive(Ord)] of AttributeRequest: attribute (by Ord::cmp), then not_null.
AttributeRequest_cmp(x, y) ==
    then(Attribute_cmp(x.attribute, y.attribute),
         bool_cmp(x.not_null, y.not_null))

(***************************************************************************)
(* Specification SpecCmp: Attribute::cmp among three Attributes            *)
(***************************************************************************)
\* The identifiers of tests::test_sort.
attr1 == Str(<<"p","b","d","f",".","p","b","d","f",".","e","m","a","i","l",
               ".","e","m","a","i","l">>)
attr2 == Str(<<"p","b","d","f",".","p","b","d","f",".","e","m","a","i","l",
               ".","d","o","m","a","i","n">>)
attr3 == Str(<<"p","b","d","f",".","p","b","d","f",".","f","m","a","i","l",
               ".","e","m","a","i","l">>)
attr4 == Str(<<"1",".","2",".","3",".","4",".","5">>)

\* The identifiers the compared Attributes are built from: every string of
\* at most MaxCmpLen bytes, the identifiers of test_sort, and two more with
\* components of which one is a prefix of the other.
CmpIdents ==
    StringsUpTo(IdentBytes, MaxCmpLen)
        \cup {attr1, attr2, attr3, attr4,
              Str(<<"a", ".", "a", "b", ".", "b", ".", "a">>),
              Str(<<"a", ".", "a", ".", "b", "b", ".", "a">>)}

\* The Attributes that Attribute::new builds from CmpIdents and the values vs.
BuiltAttributes(vs) ==
    {r.v[1] : r \in {x \in {Attribute_new(s, v) : s \in CmpIdents, v \in vs} :
                         IsOk(x)}}

InitCmp ==
    /\ a \in BuiltAttributes({None, Some(Str(<<"a">>))})
    /\ b \in BuiltAttributes({None, Some(Str(<<"a">>))})
    /\ c \in BuiltAttributes({None})
    /\ r1 = Unused /\ r2 = Unused
    /\ op = "none" /\ out = Unused
    /\ NewUnused /\ WireUnused

\* The calls of Attribute::cmp that sorting a, b and c may make.
CmpThree ==
    /\ op = "none"
    /\ op' = "cmp"
    /\ out' = [ab |-> Attribute_cmp(a, b), ba |-> Attribute_cmp(b, a),
               bc |-> Attribute_cmp(b, c), ac |-> Attribute_cmp(a, c),
               aa |-> Attribute_cmp(a, a)]
    /\ UNCHANGED <<newVars, a, b, c, r1, r2, wireVars>>

NextCmp == CmpThree

SpecCmp == InitCmp /\ [][NextCmp]_vars

\* String s is before string t: at the first place where they differ s has
\* the smaller byte, or s ends there and t goes on.
StrLess(s, t) ==
    \E k \in 0..Len(s) :
        /\ k <= Len(t)
        /\ \A i \in 1..k : s[i] = t[i]
        /\ \/ k = Len(s) /\ k < Len(t)
           \/ k < Len(s) /\ k < Len(t) /\ s[k + 1] < t[k + 1]

\* The components of an AttributeType in the order of the claim.
Components(t) == <<t.scheme, t.issuer, t.credential, t.attribute>>

\* Tuple x is lexicographically before tuple y.
TupleLess(x, y) ==
    \E i \in 1..4 : (\A j \in 1..(i - 1) : x[j] = y[j]) /\ StrLess(x[i], y[i])

\* The reverse of an ordering.
Reverse(o) == IF o = "Less" THEN "Greater" ELSE IF o = "Greater" THEN "Less" ELSE o

\* C2: Attribute::cmp is the lexicographic comparison of the two types'
\* (scheme, issuer, credential, attribute), each compared as a string; it is
\* reflexive, cmp(b, a) is the reverse of cmp(a, b), and it is transitive.
C2_CmpIsLexicographicTotalOrder ==
    op = "cmp" =>
        LET x == Components(a.atype)
            y == Components(b.atype)
        IN  /\ (out.ab = "Less") = TupleLess(x, y)
            /\ (out.ab = "Equal") = (x = y)
            /\ (out.ab = "Greater") = TupleLess(y, x)
            /\ out.aa = "Equal"
            /\ out.ba = Reverse(out.ab)
            /\ (out.ab = out.bc => out.ac = out.ab)
            /\ (out.ab = "Equal" => out.ac = out.bc)
            /\ (out.bc = "Equal" => out.ac = out.ab)

\* The three comparisons of test_sort have been made:
\* pbdf.pbdf.email.email > pbdf.pbdf.email.domain < pbdf.pbdf.fmail.email.
C2_Witness ==
    /\ op = "cmp"
    /\ Dotted(a.atype) = attr1 /\ Dotted(b.atype) = attr2
    /\ Dotted(c.atype) = attr3
    /\ out.ab = "Greater" /\ out.bc = "Less" /\ out.ac = "Less"
    /\ out.aa = "Equal"

(***************************************************************************)
(* Specification SpecOrd: the comparisons of two AttributeRequests and of  *)
(* their Attributes                                                        *)
(***************************************************************************)
\* The AttributeRequests over the Attributes built with every value.
BuiltRequests ==
    {AttributeRequest(x, nn) : x \in BuiltAttributes(Values), nn \in BOOLEAN}

InitOrd ==
    /\ r1 \in BuiltRequests
    /\ r2 \in BuiltRequests
    /\ a = Unused /\ b = Unused /\ c = Unused
    /\ op = "none" /\ out = Unused
    /\ NewUnused /\ WireUnused

\* r1.attribute.cmp(&r2.attribute)
CallAttributeCmp ==
    /\ op = "none"
    /\ op' = "Attribute::cmp"
    /\ out' = Attribute_cmp(r1.attribute, r2.attribute)
    /\ UNCHANGED <<newVars, a, b, c, r1, r2, wireVars>>

\* r1.attribute.partial_cmp(&r2.attribute), the comparison behind < <= > >=
CallAttributePartialCmp ==
    /\ op = "none"
    /\ op' = "Attribute::partial_cmp"
    /\ out' = Attribute_partial_cmp(r1.attribute, r2.attribute)
    /\ UNCHANGED <<newVars, a, b, c, r1, r2, wireVars>>

\* r1.attribute == r2.attribute
CallAttributeEq ==
    /\ op = "none"
    /\ op' = "Attribute::eq"
    /\ out' = Attribute_eq(r1.attribute, r2.attribute)
    /\ UNCHANGED <<newVars, a, b, c, r1, r2, wireVars>>

\* r1.cmp(&r2)
CallRequestCmp ==
    /\ op = "none"
    /\ op' = "AttributeRequest::cmp"
    /\ out' = AttributeRequest_cmp(r1, r2)
    /\ UNCHANGED <<newVars, a, b, c, r1, r2, wireVars>>

NextOrd ==
    \/ CallAttributeCmp
    \/ CallAttributePartialCmp
    \/ CallAttributeEq
    \/ CallRequestCmp

SpecOrd == InitOrd /\ [][NextOrd]_vars

\* The two Attributes have the same four components.
SameType == Components(r1.attribute.atype) = Components(r2.attribute.atype)

\* C3: two Attributes of the same type and different values are Equal under
\* cmp; and == holds exactly when the types and the values are equal.
C3_CmpEqualButNotEq ==
    /\ (op = "Attribute::cmp" /\ SameType
            /\ r1.attribute.value # r2.attribute.value) => out = "Equal"
    /\ op = "Attribute::eq" =>
            out = (SameType /\ r1.attribute.value = r2.attribute.value)

\* == has returned false for two Attributes of one type, None against Some.
C3_Witness ==
    /\ op = "Attribute::eq"
    /\ SameType
    /\ r1.attribute.value = None
    /\ IsSome(r2.attribute.value)
    /\ out = FALSE

C10_PartialCmpAgreesWithCmp ==
    op = "Attribute::partial_cmp" =>
        out = Some(Attribute_cmp(r1.attribute, r2.attribute))

(***************************************************************************)
(* JSON values, as serde_json writes and reads them.  An object is the     *)
(* sequence of its <<key, value>> members in the order written.            *)
(***************************************************************************)
JNull == [t |-> "null", v |-> <<>>]
JBool(x) == [t |-> "bool", v |-> x]
JString(s) == [t |-> "string", v |-> s]
JArray(items) == [t |-> "array", v |-> items]
JObject(members) == [t |-> "object", v |-> members]

\* The members of an object with the given key.
Members(members, key) == SelectSeq(members, LAMBDA m : m[1] = key)

\* The keys of the structs' fields, as serde writes them.
K_context == Str(<<"@","c","o","n","t","e","x","t">>)
K_disclose == Str(<<"d","i","s","c","l","o","s","e">>)
K_labels == Str(<<"l","a","b","e","l","s">>)
K_attribute == Str(<<"a","t","t","r","i","b","u","t","e">>)
K_not_null == Str(<<"n","o","t","_","n","u","l","l">>)
K_type == Str(<<"t","y","p","e">>)
K_atype == Str(<<"a","t","y","p","e">>)
K_value == Str(<<"v","a","l","u","e">>)
K_scheme == Str(<<"s","c","h","e","m","e">>)
K_issuer == Str(<<"i","s","s","u","e","r">>)
K_credential == Str(<<"c","r","e","d","e","n","t","i","a","l">>)

\* The literal written under "@context".
ContextLiteral ==
    Str(<<"h","t","t","p","s",":","/","/","i","r","m","a",".","a","p","p",
          "/","l","d","/","r","e","q","u","e","s","t","/","d","i","s","c",
          "l","o","s","u","r","e","/","v","2">>)

(***************************************************************************)
(* Serialize                                                               *)
(***************************************************************************)
\* usize as a JSON object key: its decimal digits.
RECURSIVE usize_to_string(_)
usize_to_string(n) ==
    IF n < 10 THEN <<48 + n>>
    ELSE usize_to_string(n \div 10) \o <<48 + (n % 10)>>

\* The keys of a BTreeMap<String, _> in the order it iterates them:
\* ascending by String::cmp.
SortedStrings(keys) ==
    [i \in 1..Cardinality(keys) |->
        CHOOSE k \in keys :
            Cardinality({y \in keys : String_cmp(y, k) = "Less"}) = i - 1]

\* The keys of a BTreeMap<usize, _> in the order it iterates them: ascending.
SortedIndices(keys) ==
    [i \in 1..Cardinality(keys) |->
        CHOOSE k \in keys :
            Cardinality({y \in keys : Int_cmp(y, k) = "Less"}) = i - 1]

\* #[derive(Serialize)] of AttributeType
Ser_AttributeType(t) ==
    JObject(<< <<K_scheme, JString(t.scheme)>>,
               <<K_issuer, JString(t.issuer)>>,
               <<K_credential, JString(t.credential)>>,
               <<K_attribute, JString(t.attribute)>> >>)

\* A Serialize of Attribute that writes a missing value as null.
Ser_Attribute_null_value(x) ==
    JObject(<< <<K_type, Ser_AttributeType(x.atype)>>,
               <<K_value, IF IsSome(x.value) THEN JString(Unwrap(x.value))
                          ELSE JNull>> >>)

\* #[derive(Serialize)] of Attribute: atype renamed to "type", value skipped
\* when it is None.
Ser_Attribute(x) ==
    JObject(<< <<K_type, Ser_AttributeType(x.atype)>> >>
            \o (IF IsSome(x.value)
                THEN << <<K_value, JString(Unwrap(x.value))>> >>
                ELSE <<>>))

\* #[derive(Serialize)] of AttributeRequest
Ser_AttributeRequest(r) ==
    JObject(<< <<K_attribute, Ser_Attribute(r.attribute)>>,
               <<K_not_null, JBool(r.not_null)>> >>)

\* Vec::dedup: a sequence without the items equal to the one before them.
RECURSIVE Dedup(_)
Dedup(q) ==
    IF Len(q) <= 1 THEN q
    ELSE IF q[1] = q[2] THEN Dedup(Tail(q))
    ELSE <<q[1]>> \o Dedup(Tail(q))

\* A Serialize of AttributeCon that drops a request equal to the one before.
Ser_AttributeCon_dedup(con) ==
    JArray([i \in 1..Len(Dedup(con)) |-> Ser_AttributeRequest(Dedup(con)[i])])

\* #[derive(Serialize)] of the newtype AttributeCon: the Vec, as an array.
Ser_AttributeCon(con) ==
    JArray([i \in 1..Len(con) |-> Ser_AttributeRequest(con[i])])

\* #[derive(Serialize)] of the newtype AttributeDisCon
Ser_AttributeDisCon(discon) ==
    JArray([i \in 1..Len(discon) |-> Ser_AttributeCon(discon[i])])

\* #[derive(Serialize)] of the newtype AttributeConDisCon
Ser_AttributeConDisCon(condiscon) ==
    JArray([i \in 1..Len(condiscon) |-> Ser_AttributeDisCon(condiscon[i])])

\* Serialize of BTreeMap<String, String>: an object, the keys ascending.
Ser_Translations(m) ==
    LET keys == SortedStrings(DOMAIN m)
    IN  JObject([i \in 1..Len(keys) |-> <<keys[i], JString(m[keys[i]])>>])

\* Serialize of BTreeMap<usize, BTreeMap<String, String>>: an object, the
\* keys ascending as numbers and written in decimal.
Ser_Labels(m) ==
    LET keys == SortedIndices(DOMAIN m)
    IN  JObject([i \in 1..Len(keys) |->
                    <<usize_to_string(keys[i]), Ser_Translations(m[keys[i]])>>])

\* Serialize of Option<BTreeMap<..>>: null for None.
Ser_Option_Labels(o) == IF IsSome(o) THEN Ser_Labels(Unwrap(o)) ELSE JNull

\* struct DisclosureRequest
DisclosureRequest(disclose, labels) == [disclose |-> disclose, labels |-> labels]

\* A Serialize of DisclosureRequest that writes labels whatever it is.
DisclosureRequest_serialize_always_labels(dr) ==
    [len  |-> 2 + (IF IsSome(dr.labels) THEN 1 ELSE 0),
     json |-> JObject(<< <<K_context, JString(ContextLiteral)>>,
                         <<K_disclose, Ser_AttributeConDisCon(dr.disclose)>>,
                         <<K_labels, Ser_Option_Labels(dr.labels)>> >>)]

\* impl Serialize for DisclosureRequest: len is the field count handed to
\* serialize_struct, json the object that the serialize_field calls write.
DisclosureRequest_serialize(dr) ==
    [len  |-> 2 + (IF IsSome(dr.labels) THEN 1 ELSE 0),
     json |-> JObject(<< <<K_context, JString(ContextLiteral)>>,
                         <<K_disclose, Ser_AttributeConDisCon(dr.disclose)>> >>
                      \o (IF IsSome(dr.labels)
                          THEN << <<K_labels, Ser_Option_Labels(dr.labels)>> >>
                          ELSE <<>>))]

(***************************************************************************)
(* Deserialize                                                             *)
(***************************************************************************)
\* serde_json's error for input that does not fit the type.
DecodeError == Err("decode")

\* The decoded items when every item decoded, the error otherwise.
Collect(results) ==
    IF \A i \in 1..Len(results) : IsOk(results[i])
    THEN Ok([i \in 1..Len(results) |-> results[i].v[1]])
    ELSE DecodeError

\* What a derived struct visitor decodes a field from, reading an object:
\* the value of the one member with the field's key; for a key that is
\* missing, serde's missing-field deserializer, from which only an Option
\* decodes (to None); for a key that comes twice, nothing decodes.
JMissing == [t |-> "missing", v |-> <<>>]
JDuplicate == [t |-> "duplicate", v |-> <<>>]
Field(members, key) ==
    LET found == Members(members, key)
    IN  IF Len(found) = 1 THEN found[1][2]
        ELSE IF Len(found) = 0 THEN JMissing
        ELSE JDuplicate

\* Deserialize of String
De_String(j) == IF j.t = "string" THEN Ok(j.v) ELSE DecodeError

\* Deserialize of bool
De_bool(j) == IF j.t = "bool" THEN Ok(j.v) ELSE DecodeError

\* Deserialize of Option<String>: null, or a missing field, is None.
De_Option_String(j) ==
    IF j.t \in {"null", "missing"} THEN Ok(None)
    ELSE IF j.t = "string" THEN Ok(Some(j.v))
    ELSE DecodeError

\* Deserialize of usize from an object key: a JSON number in the key, that
\* is "0" or digits without a leading zero.
String_to_usize(s) ==
    IF /\ Len(s) >= 1
       /\ \A i \in 1..Len(s) : s[i] \in 48..57
       /\ (Len(s) > 1 => s[1] # 48)
    THEN LET RECURSIVE val(_)
             val(n) == IF n = 0 THEN 0 ELSE 10 * val(n - 1) + (s[n] - 48)
         IN  Ok(val(Len(s)))
    ELSE DecodeError

\* #[derive(Deserialize)] of AttributeType: the fields by key from an object
\* (unknown keys skipped) or by position from an array.
De_AttributeType(j) ==
    LET fields ==
            IF j.t = "object"
            THEN Collect(<<De_String(Field(j.v, K_scheme)),
                           De_String(Field(j.v, K_issuer)),
                           De_String(Field(j.v, K_credential)),
                           De_String(Field(j.v, K_attribute))>>)
            ELSE IF j.t = "array" /\ Len(j.v) = 4
            THEN Collect([i \in 1..4 |-> De_String(j.v[i])])
            ELSE DecodeError
    IN  IF IsOk(fields)
        THEN Ok(AttributeType(fields.v[1][1], fields.v[1][2],
                              fields.v[1][3], fields.v[1][4]))
        ELSE DecodeError

\* #[derive(Deserialize)] of Attribute: "type" and an optional "value".
De_Attribute(j) ==
    LET fields ==
            IF j.t = "object"
            THEN Collect(<<De_AttributeType(Field(j.v, K_type)),
                           De_Option_String(Field(j.v, K_value))>>)
            ELSE IF j.t = "array" /\ Len(j.v) = 2
            THEN Collect(<<De_AttributeType(j.v[1]), De_Option_String(j.v[2])>>)
            ELSE DecodeError
    IN  IF IsOk(fields)
        THEN Ok(Attribute(fields.v[1][1], fields.v[1][2]))
        ELSE DecodeError

\* #[derive(Deserialize)] of AttributeRequest
De_AttributeRequest(j) ==
    LET fields ==
            IF j.t = "object"
            THEN Collect(<<De_Attribute(Field(j.v, K_attribute)),
                           De_bool(Field(j.v, K_not_null))>>)
            ELSE IF j.t = "array" /\ Len(j.v) = 2
            THEN Collect(<<De_Attribute(j.v[1]), De_bool(j.v[2])>>)
            ELSE DecodeError
    IN  IF IsOk(fields)
        THEN Ok(AttributeRequest(fields.v[1][1], fields.v[1][2]))
        ELSE DecodeError

\* #[derive(Deserialize)] of the newtype AttributeCon: the Vec inside, an
\* array of which every item is decoded, in order.
De_AttributeCon(j) ==
    IF j.t = "array"
    THEN Collect([i \in 1..Len(j.v) |-> De_AttributeRequest(j.v[i])])
    ELSE DecodeError

\* #[derive(Deserialize)] of the newtype AttributeDisCon
De_AttributeDisCon(j) ==
    IF j.t = "array"
    THEN Collect([i \in 1..Len(j.v) |-> De_AttributeCon(j.v[i])])
    ELSE DecodeError

\* #[derive(Deserialize)] of the newtype AttributeConDisCon
De_AttributeConDisCon(j) ==
    IF j.t = "array"
    THEN Collect([i \in 1..Len(j.v) |-> De_AttributeDisCon(j.v[i])])
    ELSE DecodeError

\* BTreeMap::insert of the decoded keys ks and values vs in order: a later
\* value replaces an earlier one of its key.
InsertAll(ks, vs) ==
    [k \in {ks[i] : i \in 1..Len(ks)} |->
        LET last == CHOOSE i \in 1..Len(ks) :
                        ks[i] = k /\ \A n \in (i + 1)..Len(ks) : ks[n] # k
        IN  vs[last]]

\* Deserialize of BTreeMap<String, String>: an object, every value a string.
De_Translations(j) ==
    IF j.t = "object"
    THEN LET vs == Collect([i \in 1..Len(j.v) |-> De_String(j.v[i][2])])
         IN  IF IsOk(vs)
             THEN Ok(InsertAll([i \in 1..Len(j.v) |-> j.v[i][1]], vs.v[1]))
             ELSE DecodeError
    ELSE DecodeError

\* Deserialize of BTreeMap<usize, BTreeMap<String, String>>: an object,
\* every key a usize and every value a map.
De_Labels(j) ==
    IF j.t = "object"
    THEN LET ks == Collect([i \in 1..Len(j.v) |-> String_to_usize(j.v[i][1])])
             vs == Collect([i \in 1..Len(j.v) |-> De_Translations(j.v[i][2])])
         IN  IF IsOk(ks) /\ IsOk(vs)
             THEN Ok(InsertAll(ks.v[1], vs.v[1]))
             ELSE DecodeError
    ELSE DecodeError

\* Deserialize of Option<BTreeMap<..>>: null, or a missing field, is None.
De_Option_Labels(j) ==
    IF j.t \in {"null", "missing"} THEN Ok(None)
    ELSE LET m == De_Labels(j)
         IN  IF IsOk(m) THEN Ok(Some(m.v[1])) ELSE DecodeError

\* A Deserialize of DisclosureRequest that insists on the "@context" that
\* Serialize writes.
De_DisclosureRequest_checks_context(j) ==
    LET fields ==
            IF j.t = "object"
                /\ Members(j.v, K_context)
                       = << <<K_context, JString(ContextLiteral)>> >>
            THEN Collect(<<De_AttributeConDisCon(Field(j.v, K_disclose)),
                           De_Option_Labels(Field(j.v, K_labels))>>)
            ELSE DecodeError
    IN  IF IsOk(fields)
        THEN Ok(DisclosureRequest(fields.v[1][1], fields.v[1][2]))
        ELSE DecodeError

\* #[derive(Deserialize)] of DisclosureRequest: "disclose" and an optional
\* "labels"; every other key, "@context" among them, is skipped.
De_DisclosureRequest(j) ==
    LET fields ==
            IF j.t = "object"
            THEN Collect(<<De_AttributeConDisCon(Field(j.v, K_disclose)),
                           De_Option_Labels(Field(j.v, K_labels))>>)
            ELSE IF j.t = "array" /\ Len(j.v) = 2
            THEN Collect(<<De_AttributeConDisCon(j.v[1]),
                           De_Option_Labels(j.v[2])>>)
            ELSE DecodeError
    IN  IF IsOk(fields)
        THEN Ok(DisclosureRequest(fields.v[1][1], fields.v[1][2]))
        ELSE DecodeError

(***************************************************************************)
(* Specification SpecWire: a DisclosureRequest is built, serialized, and   *)
(* the JSON, as written or with its "@context" changed, deserialized       *)
(***************************************************************************)
\* The AttributeRequests that are put into the tree.
RequestPool ==
    {AttributeRequest(
         Attribute_new(Str(<<"a", ".", "b", ".", "a", ".", "b">>), None).v[1],
         FALSE),
     AttributeRequest(
         Attribute_new(Str(<<"a", ".", "b", ".", "a", ".", "b">>),
                       Some(Str(<<"a">>))).v[1],
         TRUE),
     AttributeRequest(
         Attribute_new(Str(<<"b", ".", ".", "a", ".">>), Some(Str(<<>>))).v[1],
         FALSE)}

\* The indices, locales and texts of the labels.
LabelIndices == {2, 10}
Locales == {Str(<<"e", "n">>), Str(<<"n", "l">>)}
Texts == {Str(<<"a">>)}

\* The sum of the numbers of a sequence.
RECURSIVE Sum(_)
Sum(q) == IF q = <<>> THEN 0 ELSE Head(q) + Sum(Tail(q))

\* The nodes of a disclose tree: its disjunctions, conjunctions and requests.
Nodes(condiscon) ==
    Len(condiscon)
    + Sum([i \in 1..Len(condiscon) |->
              Len(condiscon[i])
              + Sum([k \in 1..Len(condiscon[i]) |-> Len(condiscon[i][k])])])

\* The insertions that made the labels.
Insertions(labels) ==
    IF IsSome(labels)
    THEN LET m  == Unwrap(labels)
             ks == SortedIndices(DOMAIN m)
         IN  1 + Len(ks)
               + Sum([i \in 1..Len(ks) |-> Cardinality(DOMAIN m[ks[i]])])
    ELSE 0

\* BTreeMap::new()
EmptyMap == <<>>

InitWire ==
    /\ request = DisclosureRequest(<<>>, None)
    /\ pc = "build"
    /\ ser = Unused /\ input = Unused /\ decoded = Unused
    /\ NewUnused /\ CmpUnused

\* disclose.0.push(AttributeDisCon(vec![]))
PushDisCon ==
    /\ pc = "build"
    /\ Nodes(request.disclose) < MaxNodes
    /\ request' = [request EXCEPT !.disclose = Append(@, <<>>)]
    /\ UNCHANGED <<newVars, cmpVars, pc, ser, input, decoded>>

\* push(AttributeCon(vec![])) on the last disjunction
PushCon ==
    /\ pc = "build"
    /\ Nodes(request.disclose) < MaxNodes
    /\ request.disclose # <<>>
    /\ request' = [request EXCEPT
                      !.disclose[Len(request.disclose)] = Append(@, <<>>)]
    /\ UNCHANGED <<newVars, cmpVars, pc, ser, input, decoded>>

\* push(request) on the last conjunction of the last disjunction
PushRequest ==
    /\ pc = "build"
    /\ Nodes(request.disclose) < MaxNodes
    /\ request.disclose # <<>>
    /\ request.disclose[Len(request.disclose)] # <<>>
    /\ \E r \in RequestPool :
           LET i == Len(request.disclose)
               k == Len(request.disclose[i])
           IN  request' = [request EXCEPT !.disclose[i][k] = Append(@, r)]
    /\ UNCHANGED <<newVars, cmpVars, pc, ser, input, decoded>>

\* labels = Some(BTreeMap::new())
SomeLabels ==
    /\ pc = "build"
    /\ Insertions(request.labels) < MaxLabels
    /\ request.labels = None
    /\ request' = [request EXCEPT !.labels = Some(EmptyMap)]
    /\ UNCHANGED <<newVars, cmpVars, pc, ser, input, decoded>>

\* labels.insert(i, BTreeMap::new()) for a new index i
InsertLabel ==
    /\ pc = "build"
    /\ Insertions(request.labels) < MaxLabels
    /\ IsSome(request.labels)
    /\ \E i \in LabelIndices \ DOMAIN Unwrap(request.labels) :
           request' = [request EXCEPT
                          !.labels = Some(Unwrap(@) @@ (i :> EmptyMap))]
    /\ UNCHANGED <<newVars, cmpVars, pc, ser, input, decoded>>

\* labels[i].insert(locale, text) for a new locale
InsertTranslation ==
    /\ pc = "build"
    /\ Insertions(request.labels) < MaxLabels
    /\ IsSome(request.labels)
    /\ \E i \in DOMAIN Unwrap(request.labels) :
       \E l \in Locales \ DOMAIN Unwrap(request.labels)[i] :
       \E t \in Texts :
           request' = [request EXCEPT
                          !.labels = Some([Unwrap(@) EXCEPT
                                              ![i] = @ @@ (l :> t)])]
    /\ UNCHANGED <<newVars, cmpVars, pc, ser, input, decoded>>

\* serde_json::to_value(&request)
Serialize ==
    /\ pc = "build"
    /\ ser' = DisclosureRequest_serialize(request)
    /\ pc' = "serialized"
    /\ UNCHANGED <<newVars, cmpVars, request, input, decoded>>

\* The members of an object without those of the given key.
Without(members, key) == SelectSeq(members, LAMBDA m : m[1] # key)

\* An object as written and with its "@context" taken out, given another
\* string, given null, and moved behind the other members.
ContextVariants(j) ==
    {j,
     JObject(Without(j.v, K_context)),
     JObject(<< <<K_context, JString(Str(<<"x">>))>> >>
             \o Without(j.v, K_context)),
     JObject(<< <<K_context, JNull>> >> \o Without(j.v, K_context)),
     JObject(Without(j.v, K_context) \o Members(j.v, K_context))}

\* serde_json::from_value::<DisclosureRequest>(input)
Deserialize ==
    /\ pc = "serialized"
    /\ \E j \in ContextVariants(ser.json) :
           /\ input' = j
           /\ decoded' = De_DisclosureRequest(j)
    /\ pc' = "decoded"
    /\ UNCHANGED <<newVars, cmpVars, request, ser>>

NextWire ==
    \/ PushDisCon
    \/ PushCon
    \/ PushRequest
    \/ SomeLabels
    \/ InsertLabel
    \/ InsertTranslation
    \/ Serialize
    \/ Deserialize

SpecWire == InitWire /\ [][NextWire]_vars

(***************************************************************************)
(* Specification SpecNew: one call of Attribute::new                       *)
(***************************************************************************)
\* The Attribute objects handed to the deserializer: any four strings of at
\* most one byte as the components, with and without a value.
AttributeObjects ==
    {JObject(<< <<K_type, JObject(<< <<K_scheme, JString(t[1])>>,
                                     <<K_issuer, JString(t[2])>>,
                                     <<K_credential, JString(t[3])>>,
                                     <<K_attribute, JString(t[4])>> >>)>> >>
             \o w) :
        t \in [1..4 -> StringsUpTo(IdentBytes, 1)],
        w \in {<<>>, << <<K_value, JString(Str(<<"a">>))>> >>}}

InitNew ==
    /\ \/ /\ atype \in StringsUpTo(IdentBytes, MaxLen)
          /\ value \in Values
          /\ input = Unused
       \/ /\ atype = Unused /\ value = Unused
          /\ input \in AttributeObjects
    /\ result = Pending
    /\ a = Unused /\ b = Unused /\ c = Unused
    /\ r1 = Unused /\ r2 = Unused
    /\ op = "none" /\ out = Unused
    /\ request = Unused /\ pc = "unused"
    /\ ser = Unused /\ decoded = Unused

\* Attribute::new(atype, value)
CallNew ==
    /\ op = "none"
    /\ input = Unused
    /\ op' = "Attribute::new"
    /\ result' = Attribute_new(atype, value)
    /\ UNCHANGED <<atype, value, a, b, c, r1, r2, out, wireVars>>

\* serde_json::from_value::<Attribute>(input)
CallDeserializeAttribute ==
    /\ op = "none"
    /\ input # Unused
    /\ op' = "Attribute::deserialize"
    /\ result' = De_Attribute(input)
    /\ UNCHANGED <<atype, value, a, b, c, r1, r2, out, wireVars>>

NextNew == CallNew \/ CallDeserializeAttribute

SpecNew == InitNew /\ [][NextNew]_vars

(***************************************************************************)
(* Attribute::new: the claims                                              *)
(***************************************************************************)
\* C1: Attribute::new(s, v) returns Ok exactly when s has four dot-separated
\* segments (three dots), whatever the segments hold; the Attribute then has
\* the four segments as scheme, issuer, credential and attribute, in that
\* order (dot-free components that join with '.' to s), and value v.  Every
\* other identifier gives Err(NotAnAttributeTypeIdentifier).
C1_NewAcceptsExactlyFourSegments ==
    op = "Attribute::new" =>
        IF DotCount(atype) = 3
        THEN /\ IsOk(result)
             /\ result.v[1].value = value
             /\ Dotted(result.v[1].atype) = atype
             /\ NoDot(result.v[1].atype.scheme)
             /\ NoDot(result.v[1].atype.issuer)
             /\ NoDot(result.v[1].atype.credential)
             /\ NoDot(result.v[1].atype.attribute)
        ELSE result = Err("NotAnAttributeTypeIdentifier")

\* Attribute::new has returned Ok for "a.b.b.a" with a value.
C1_Witness ==
    /\ op = "Attribute::new"
    /\ IsOk(result)
    /\ atype = Str(<<"a", ".", "b", ".", "b", ".", "a">>)
    /\ value = Some(Str(<<"a">>))
    /\ result.v[1].atype.credential = Str(<<"b">>)

\* C9 as claimed: the four components of every AttributeType that comes to
\* exist, by Attribute::new or by deserialization, are non-empty.
C9_ComponentsNeverEmpty ==
    IsOk(result) =>
        \A i \in 1..4 : Components(result.v[1].atype)[i] # <<>>

\* C9 as amended: Attribute::new accepts exactly the identifiers of four
\* dot-separated segments, empty segments included, and the components it
\* builds are those segments (dot-free, joining with '.' to the identifier);
\* deserialization takes the four strings of the input as they are.
C9_FourSegmentsPossiblyEmpty ==
    /\ op = "Attribute::new" =>
           /\ IsOk(result) = (DotCount(atype) = 3)
           /\ IsOk(result) =>
                  /\ Dotted(result.v[1].atype) = atype
                  /\ \A i \in 1..4 : NoDot(Components(result.v[1].atype)[i])
    /\ op = "Attribute::deserialize" =>
           /\ IsOk(result)
           /\ LET t == Members(input.v, K_type)[1][2].v
              IN  Components(result.v[1].atype)
                      = <<t[1][2].v, t[2][2].v, t[3][2].v, t[4][2].v>>

\* Attribute::new has returned Ok for "a..b.a", whose issuer is empty.
C9_Witness ==
    /\ op = "Attribute::new"
    /\ atype = Str(<<"a", ".", ".", "b", ".", "a">>)
    /\ IsOk(result)
    /\ result.v[1].atype.issuer = <<>>
    /\ result.v[1].atype.credential = Str(<<"b">>)

(***************************************************************************)
(* The encoding of a DisclosureRequest: the claims                         *)
(***************************************************************************)
\* The keys of an object, in the order written.
Keys(j) == [i \in 1..Len(j.v) |-> j.v[i][1]]

\* The value of the one member of an object with the given key.
Get(j, key) == Members(j.v, key)[1][2]

\* C5: the serialized DisclosureRequest is an object of "@context", with
\* the fixed literal, then "disclose", then "labels" exactly when labels is
\* Some; and the field count given to serialize_struct is the number of
\* fields written.
C5_EnvelopeKeys ==
    pc \in {"serialized", "decoded"} =>
        /\ ser.json.t = "object"
        /\ Keys(ser.json) = IF IsSome(request.labels)
                            THEN <<K_context, K_disclose, K_labels>>
                            ELSE <<K_context, K_disclose>>
        /\ ser.json.v[1][2] = JString(ContextLiteral)
        /\ ser.len = Len(ser.json.v)

\* A request with labels has been serialized into three members.
C5_Witness ==
    /\ pc = "serialized"
    /\ IsSome(request.labels)
    /\ DOMAIN Unwrap(request.labels) # {}
    /\ Len(ser.json.v) = 3
    /\ ser.len = 3

\* C6: every Attribute of the serialized disclose tree is an object that has
\* its type under "type" and nothing under "atype", and has "value" exactly
\* when its value is Some, then the string and never null.
C6_AttributeKeys ==
    pc \in {"serialized", "decoded"} =>
        \A i \in 1..Len(request.disclose) :
        \A k \in 1..Len(request.disclose[i]) :
        \A n \in 1..Len(request.disclose[i][k]) :
            LET x == request.disclose[i][k][n].attribute
                j == Get(Get(ser.json, K_disclose).v[i].v[k].v[n], K_attribute)
            IN  /\ j.t = "object"
                /\ Len(Members(j.v, K_type)) = 1
                /\ Members(j.v, K_atype) = <<>>
                /\ Get(j, K_type) =
                       JObject(<< <<K_scheme, JString(x.atype.scheme)>>,
                                  <<K_issuer, JString(x.atype.issuer)>>,
                                  <<K_credential, JString(x.atype.credential)>>,
                                  <<K_attribute, JString(x.atype.attribute)>> >>)
                /\ (Members(j.v, K_value) # <<>>) = IsSome(x.value)
                /\ IsSome(x.value) =>
                       Members(j.v, K_value)
                           = << <<K_value, JString(Unwrap(x.value))>> >>
                /\ \A m \in 1..Len(j.v) : j.v[m][2] # JNull

\* A conjunction of an Attribute without a value and one with a value has
\* been serialized.
C6_Witness ==
    /\ pc = "serialized"
    /\ Len(request.disclose) = 2
    /\ Len(request.disclose[2]) = 1
    /\ Len(request.disclose[2][1]) = 2
    /\ request.disclose[2][1][1].attribute.value = None
    /\ IsSome(request.disclose[2][1][2].attribute.value)

\* C7: deserialization succeeds whether "@context" is missing, the literal
\* or anything else, and yields what the input without "@context" yields,
\* the disclose tree and the labels that were serialized; a missing
\* "labels" yields None.
C7_ContextIgnored ==
    pc = "decoded" =>
        /\ IsOk(decoded)
        /\ decoded = De_DisclosureRequest(JObject(Without(input.v, K_context)))
        /\ decoded.v[1].disclose = request.disclose
        /\ decoded.v[1].labels = request.labels
        /\ Members(input.v, K_labels) = <<>> => decoded.v[1].labels = None

\* An input whose "@context" is another string has been deserialized into
\* a request with an attribute request and labels.
C7_Witness ==
    /\ pc = "decoded"
    /\ Members(input.v, K_context) = << <<K_context, JString(Str(<<"x">>))>> >>
    /\ IsOk(decoded)
    /\ Len(decoded.v[1].disclose) = 1
    /\ Len(decoded.v[1].disclose[1]) = 1
    /\ Len(decoded.v[1].disclose[1][1]) = 1
    /\ IsSome(decoded.v[1].labels)

\* C8: deserializing what serializing a DisclosureRequest wrote gives the
\* request back: the same nesting and order, the same requests, the same
\* labels.
C8_RoundTrip ==
    (pc = "decoded" /\ input = ser.json) => decoded = Ok(request)

\* A request with an empty conjunction, a conjunction of the same request
\* twice, and a label has gone through serialization and back.
C8_Witness ==
    /\ pc = "decoded"
    /\ input = ser.json
    /\ decoded = Ok(request)
    /\ Len(request.disclose) = 1
    /\ Len(request.disclose[1]) = 2
    /\ request.disclose[1][1] = <<>>
    /\ Len(request.disclose[1][2]) = 2
    /\ request.disclose[1][2][1] = request.disclose[1][2][2]
    /\ IsSome(request.labels)
    /\ 10 \in DOMAIN Unwrap(request.labels)

=============================================================================
